---- MODULE Spec2Model ----
(***************************************************************************)
(* Model of src/mm.c: an implicit-free-list allocator with boundary tags   *)
(* over a flat heap grown by mem_sbrk.                                     *)
(*                                                                         *)
(* Addresses are absolute byte addresses (LP64 build: a pointer plus a     *)
(* uint32_t never wraps).  NULL is 0 and the failure pointer of mem_sbrk   *)
(* is -1.  Everything the                                                  *)
(* model calls a valid address lies in the arena of the heap simulator or  *)
(* in the few words in front of it; an access anywhere else ends the run   *)
(* (status "crashed").                                                     *)
(*                                                                         *)
(* A uint32_t word is kept as the two's-complement integer with the same   *)
(* bits (so 2^32 - 8 is kept as -8): x % 8 and x % 2 are the low bits of   *)
(* either form, and unsigned comparison is ULE/UGE below.                  *)
(*                                                                         *)
(* Words of the arena that the allocator never wrote are indeterminate:    *)
(* they read as junk, the word in front of the heap as the value Init      *)
(* chose for it.                                                           *)
(***************************************************************************)
EXTENDS Integers, Sequences, FiniteSets, TLC

VARIABLES mem, brk, mem_max_addr, junk, heap_listp, curr_block,
          status, allocs, last, nops, realloced

vars == <<mem, brk, mem_max_addr, junk, heap_listp, curr_block,
          status, allocs, last, nops, realloced>>

----------------------------------------------------------------------------
(* Program constants *)
WSIZE == 4
DSIZE == 8
CHUNKSIZE == 4096
OVERHEAD == 8
MINREQ == 16

(* The heap simulator *)
HeapBase == 4096
PreBytes == 16
NULL == 0
FailPtr == 0 - 1
Wild == 0 - 1000000

(* Bounds of the model *)
MaxHeap == 8192
MaxOps == 4

Sizes == {0, 8, 16, 17, 504, 512, 520}
PreHeapWords == {0, 16, 25, 28, 520}
JunkWords == {0, 520, 521}
MaxChoices == {HeapBase + 8, HeapBase + 2048, HeapBase + 16 + CHUNKSIZE,
               HeapBase + MaxHeap}

----------------------------------------------------------------------------
(* uint32_t arithmetic on the two's-complement form *)
ULE(a, b) == IF (a >= 0) = (b >= 0) THEN a <= b ELSE a >= 0
UGE(a, b) == ULE(b, a)
ULT(a, b) == ~ULE(b, a)

(* pointer +/- uint32_t; a uint32_t with the top bit set leaves the arena *)
PtrAdd(p, x) == IF x < 0 \/ p < 0 THEN Wild ELSE p + x
PtrSub(p, x) == IF x < 0 \/ p < 0 THEN Wild ELSE p - x

MAX(x, y) == IF x > y THEN x ELSE y
MIN(x, y) == IF x < y THEN x ELSE y

PACK(size, alloc) == IF size % 2 = 1 THEN size ELSE size + (alloc % 2)

----------------------------------------------------------------------------
(* Memory.  A machine state s is a record                                  *)
(*   mem : the words written so far (address -> word)                      *)
(*   brk : the heap top (mem_sbrk(0))                                      *)
(*   hl  : heap_listp,  cb : curr_block                                    *)
(*   ok  : FALSE once an access fell outside valid memory                  *)
(*   wr  : the addresses written since the handler started                 *)
Valid(a) ==
    /\ a >= HeapBase - PreBytes
    /\ a + WSIZE <= HeapBase + MaxHeap
    /\ a % WSIZE = 0

Word(s, a) == IF a \in DOMAIN s.mem THEN s.mem[a] ELSE junk

Touch(s, A) == IF \A a \in A : Valid(a) THEN s ELSE [s EXCEPT !.ok = FALSE]

GET(s, p) == Word(s, p)

PUT(s, p, val) ==
    IF s.ok /\ Valid(p)
    THEN [s EXCEPT !.mem = [a \in DOMAIN s.mem \cup {p} |->
                               IF a = p THEN val ELSE s.mem[a]],
                   !.wr = @ \cup {p}]
    ELSE [s EXCEPT !.ok = FALSE]

(* GET_SIZE with the mask ~0x3 in place of ~0x7 *)
GET_SIZE_mask3(s, p) == GET(s, p) - (GET(s, p) % 4)

GET_SIZE(s, p) == GET(s, p) - (GET(s, p) % 8)

GET_ALLOC(s, p) == GET(s, p) % 2

HDRP(bp) == bp - WSIZE

FTRP(s, bp) == PtrAdd(bp, GET_SIZE(s, HDRP(bp))) - DSIZE

InHeap(s, p) == ~(p < s.hl \/ p >= s.brk)

NEXT_BLKP(s, bp) ==
    LET next == PtrAdd(bp, GET_SIZE(s, bp - WSIZE))
    IN  IF InHeap(s, next) THEN next ELSE NULL

PREV_BLKP(s, bp) ==
    LET prev == PtrSub(bp, GET_SIZE(s, bp - DSIZE))
    IN  IF InHeap(s, prev) THEN prev ELSE NULL

(* PUT(FTRP(bp), val): FTRP reads the header of bp first *)
PUT_FTRP(s, bp, val) == PUT(Touch(s, {HDRP(bp)}), FTRP(s, bp), val)

(* Sequencing: Then(x, F) is F applied to the value of x, x evaluated once *)
Only(S) == CHOOSE x \in S : TRUE
Then(x, F(_)) == Only({F(v) : v \in {x}})

----------------------------------------------------------------------------
(* mem_sbrk of the heap simulator: the old top, or the failure pointer -1  *)
mem_sbrk(s, incr) ==
    IF incr < 0 \/ s.brk + incr > mem_max_addr
    THEN [s |-> s, ret |-> FailPtr]
    ELSE [s |-> [s EXCEPT !.brk = @ + incr], ret |-> s.brk]

----------------------------------------------------------------------------
(* coalesce: the five reads of lines 263-267, then the four cases *)
mergePrev(s, bp, newSize) ==
    Then(PUT(s, HDRP(PREV_BLKP(s, bp)), PACK(newSize, 0)), LAMBDA a :
    Then(PUT_FTRP(a, PREV_BLKP(a, bp), PACK(newSize, 0)), LAMBDA b :
         [s |-> b, ret |-> PREV_BLKP(b, bp)]))

mergeNext(s, bp, newSize) ==
    Then(PUT(s, HDRP(bp), PACK(newSize, 0)), LAMBDA a :
    Then(PUT_FTRP(a, bp, PACK(newSize, 0)), LAMBDA b :
         [s |-> b, ret |-> bp]))

coalesceReads(s, bp) ==
    {HDRP(bp) - DSIZE, PREV_BLKP(s, HDRP(bp)), HDRP(bp),
     HDRP(bp) - WSIZE, NEXT_BLKP(s, HDRP(bp)),
     bp - DSIZE, HDRP(PREV_BLKP(s, bp)), bp - WSIZE, HDRP(NEXT_BLKP(s, bp))}

coalesceCases(s, bp) ==
    LET prevBlockSize == GET_SIZE(s, PREV_BLKP(s, HDRP(bp)))
        currBlockSize == GET_SIZE(s, HDRP(bp))
        nextBlockSize == GET_SIZE(s, NEXT_BLKP(s, HDRP(bp)))
        prevAllocated == GET_ALLOC(s, HDRP(PREV_BLKP(s, bp)))
        nextAllocated == GET_ALLOC(s, HDRP(NEXT_BLKP(s, bp)))
    IN  IF ~s.ok THEN [s |-> s, ret |-> NULL]
        ELSE IF prevAllocated = 1 /\ nextAllocated = 1
             THEN [s |-> s, ret |-> bp]
        ELSE IF prevAllocated = 0
             THEN mergePrev(s, bp, prevBlockSize + currBlockSize)
        ELSE IF nextAllocated = 0
             THEN mergeNext(s, bp, nextBlockSize + currBlockSize)
        ELSE mergePrev(s, bp, currBlockSize + nextBlockSize + prevBlockSize)

coalesce(s0, bp0) ==
    Then(bp0, LAMBDA bp :
    Then(Touch(s0, coalesceReads(s0, bp)), LAMBDA s : coalesceCases(s, bp)))

extend_heap(s, words) ==
    Then(mem_sbrk(s, words * 4), LAMBDA r : coalesce(r.s, r.ret))

----------------------------------------------------------------------------
(* mm_init: the result record carries the return value, whether mem_sbrk   *)
(* refused a request, and whether a word was accessed through the failure  *)
(* pointer                                                                 *)
mm_init(s) ==
    Then(mem_sbrk(s, 4 * WSIZE), LAMBDA r :
    IF r.ret = FailPtr
    THEN [s |-> s, ret |-> 0 - 1, refused |-> TRUE, thruFail |-> FALSE]
    ELSE
    Then([r.s EXCEPT !.hl = r.ret, !.cb = r.ret], LAMBDA a :
    Then(PUT(a, a.hl, 0), LAMBDA b :
    Then(PUT(b, a.hl + WSIZE, PACK(0, 1)), LAMBDA c :
    Then(PUT(c, a.hl + DSIZE, PACK(0, 1)), LAMBDA d :
    Then(PUT(d, a.hl + DSIZE + WSIZE, PACK(0, 1)), LAMBDA e :
    Then(mem_sbrk(e, (CHUNKSIZE \div WSIZE) * 4).ret = FailPtr, LAMBDA no :
    Then(extend_heap(e, CHUNKSIZE \div WSIZE), LAMBDA x :
         [s |-> x.s,
          ret |-> IF x.ret = NULL THEN 0 - 1 ELSE 0,
          refused |-> no,
          thruFail |-> no /\ ~x.s.ok]
    ))))))))

----------------------------------------------------------------------------
(* find_fit.  scan is one of its two for-loops: i is the loop variable,    *)
(* lim its bound, seen the values i has taken.  find_fit writes nothing,   *)
(* so a value of i that comes back is a loop that never ends ("hang").     *)
RECURSIVE scan(_, _, _, _, _)
scan(s, i, lim, asize, seen) ==
    IF ~(i < lim) THEN [out |-> "end", ret |-> NULL, seen |-> seen]
    ELSE IF i \in seen THEN [out |-> "hang", ret |-> NULL, seen |-> seen]
    ELSE IF ~Valid(i) \/ ~Valid(HDRP(i))
         THEN [out |-> "crash", ret |-> NULL, seen |-> seen \cup {i}]
    ELSE IF GET_ALLOC(s, i) = 0 /\ ULE(asize - DSIZE, GET_SIZE(s, HDRP(i)))
         THEN [out |-> "fit", ret |-> i, seen |-> seen \cup {i}]
    ELSE Then(NEXT_BLKP(s, i), LAMBDA n :
         Then(seen \cup {i}, LAMBDA sn : scan(s, n, lim, asize, sn)))

find_fit(s, asize) ==
    Then(scan(s, s.cb, s.brk, asize, {}), LAMBDA first :
    IF first.out # "end" THEN first
    ELSE Then(scan(s, s.hl, s.cb, asize, {}), LAMBDA second :
         IF second.out # "end" THEN second
         ELSE [out |-> "none", ret |-> NULL,
               seen |-> first.seen \cup second.seen]))

----------------------------------------------------------------------------
(* place *)
placeSplit(s, bp, asize, blockSize) ==
    Then(PUT(s, HDRP(bp), PACK(asize, 1)), LAMBDA a :
    Then(PUT_FTRP(a, bp, PACK(asize, 1)), LAMBDA b :
    Then(PUT(Touch(b, {HDRP(bp)}), HDRP(NEXT_BLKP(b, bp)),
             PACK(asize - blockSize, 0)), LAMBDA c :
    Then(PUT_FTRP(Touch(c, {HDRP(bp)}), NEXT_BLKP(c, bp),
                  PACK(asize - blockSize, 0)), LAMBDA d :
    Then(Touch(d, {HDRP(bp)}), LAMBDA e :
         coalesce(e, NEXT_BLKP(e, bp)).s)))))

placeWhole(s, bp, asize) ==
    Then(PUT(s, HDRP(bp), PACK(asize, 1)), LAMBDA a :
         PUT_FTRP(a, bp, PACK(asize, 1)))

place(s0, bp0, asize) ==
    Then(bp0, LAMBDA bp :
    Then(Touch(s0, {HDRP(bp)}), LAMBDA s :
    Then(GET_SIZE(s, HDRP(bp)), LAMBDA blockSize :
         IF ~s.ok THEN s
         ELSE IF UGE(blockSize - asize, 16)
              THEN placeSplit(s, bp, asize, blockSize)
         ELSE placeWhole(s, bp, asize))))

----------------------------------------------------------------------------
(* uint32_t asize / WSIZE, and the words * 4 of extend_heap *)
UDiv4(x) == IF x >= 0 THEN x \div 4 ELSE 1073741824 + (x \div 4)
UMul4(w) == IF w < 536870912 THEN w * 4 ELSE (w - 1073741824) * 4

(* mm_malloc.  out is "ret" (returned), "crash" or "hang"; grew and        *)
(* refused tell whether mem_sbrk was asked and whether it refused; fit     *)
(* whether find_fit returned a block; room whether mem_sbrk would grant    *)
(* the growth mm_malloc asks for on entry.                                 *)
sbrkRoom(s, asize) == mem_sbrk(s, UMul4(UDiv4(asize))).ret # FailPtr

mallocPlace(s, fitFound, asize, f, grew, room) ==
    Then(place(s, fitFound, asize), LAMBDA t :
         [s |-> t, out |-> IF t.ok THEN "ret" ELSE "crash",
          ret |-> fitFound, invalid |-> FALSE,
          grew |-> grew, refused |-> grew /\ ~room, seen |-> f.seen,
          fit |-> ~grew, room |-> room])

mm_malloc(s, size) ==
    Then(size + DSIZE, LAMBDA asize :
    IF ULT(size, MINREQ)
    THEN [s |-> s, out |-> "ret", ret |-> NULL, invalid |-> TRUE,
          grew |-> FALSE, refused |-> FALSE, seen |-> {},
          fit |-> FALSE, room |-> sbrkRoom(s, asize)]
    ELSE
    Then(sbrkRoom(s, asize), LAMBDA room :
    Then(find_fit(s, asize), LAMBDA f :
    IF f.out \in {"crash", "hang"}
    THEN [s |-> [s EXCEPT !.ok = f.out # "crash"], out |-> f.out,
          ret |-> NULL, invalid |-> FALSE,
          grew |-> FALSE, refused |-> FALSE, seen |-> f.seen,
          fit |-> FALSE, room |-> room]
    ELSE IF f.ret = NULL
    THEN Then(extend_heap(s, UDiv4(asize)), LAMBDA x :
              mallocPlace(x.s, x.ret, asize, f, TRUE, room))
    ELSE mallocPlace(s, f.ret, asize, f, FALSE, room))))

----------------------------------------------------------------------------
(* mm_free *)
ClearBit(s, p) ==
    Then(Touch(s, {p}), LAMBDA t :
         IF GET(t, p) % 2 = 1 THEN PUT(t, p, GET(t, p) - 1) ELSE t)

mm_free(s0, bp) ==
    Then(Touch(s0, {HDRP(bp)}), LAMBDA s :
    Then(FTRP(s, bp), LAMBDA Fptr :
    Then(ClearBit(s, HDRP(bp)), LAMBDA a :
    Then(ClearBit(a, Fptr), LAMBDA b :
         IF ~s.ok THEN s ELSE coalesce(b, bp).s))))

----------------------------------------------------------------------------
(* memcpy(dst, src, n) by words, the last one partial when n % 4 # 0       *)
(* (little-endian).  When the two ranges overlap the result depends on     *)
(* the library: with fwd the words are copied one by one upwards, so a     *)
(* destination dist bytes above the source receives the first dist bytes   *)
(* of the source over and over; otherwise the source is read whole before  *)
(* anything is written.                                                    *)
copySource(dst, src, k, fwd) ==
    IF fwd /\ dst > src /\ dst - src <= k * 4
    THEN src + ((k * 4) % (dst - src))
    ELSE src + k * 4

copiedWord(s, dst, src, k, n, fwd) ==
    LET old == Word(s, dst + k * 4)
        new == Word(s, copySource(dst, src, k, fwd))
        m == IF n - k * 4 = 1 THEN 256
             ELSE IF n - k * 4 = 2 THEN 65536 ELSE 16777216
    IN  IF (k + 1) * 4 <= n THEN new
        ELSE (old - (old % m)) + (new % m)

memcpy(s0, dst, src, n, fwd) ==
    IF n < 0 THEN [s0 EXCEPT !.ok = FALSE]
    ELSE
    Then((n + 3) \div 4, LAMBDA nw :
    Then(Touch(s0, {src + k * 4 : k \in 0 .. nw - 1}
                   \cup {dst + k * 4 : k \in 0 .. nw - 1}), LAMBDA s :
    Then({dst + k * 4 : k \in 0 .. nw - 1}, LAMBDA D :
         IF ~s.ok THEN s
         ELSE [s EXCEPT
                 !.mem = [a \in DOMAIN s.mem \cup D |->
                            IF a \in D
                            THEN copiedWord(s, dst, src, (a - dst) \div 4,
                                            n, fwd)
                            ELSE s.mem[a]],
                 !.wr = @ \cup D])))

(* mm_realloc: out is "ret", "crash", "hang" or "exit" (exit(1)) *)
mm_realloc(s, ptr, size, fwd) ==
    Then(mm_malloc(s, size), LAMBDA m :
    IF m.out # "ret"
    THEN [s |-> m.s, out |-> m.out, ret |-> NULL, copied |-> 0]
    ELSE IF m.ret = NULL
    THEN [s |-> m.s, out |-> "exit", ret |-> NULL, copied |-> 0]
    ELSE
    Then(Touch(m.s, {HDRP(ptr)}), LAMBDA t :
    Then(IF ULT(size, GET_SIZE(t, HDRP(ptr))) THEN size
         ELSE GET_SIZE(t, HDRP(ptr)), LAMBDA copySize :
    Then(memcpy(t, m.ret, ptr, copySize, fwd), LAMBDA c :
    Then(mm_free(c, ptr), LAMBDA d :
         [s |-> d, out |-> IF d.ok THEN "ret" ELSE "crash", ret |-> m.ret,
          copied |-> copySize])))))

----------------------------------------------------------------------------
(* The program's state as a machine state, and the bookkeeping of the     *)
(* model: status is "uninit", "ready", "initfail" (mm_init returned -1),   *)
(* "crashed" (an access outside valid memory), "hung" (a loop that never   *)
(* ends) or "exited" (exit(1)); allocs records every pointer mm_malloc or  *)
(* mm_realloc returned, with the size asked for, the size in its header    *)
(* on return, whether it is still live, and the numbers of the calls that  *)
(* returned and freed it, and the bytes in free blocks before the call     *)
(* that returned it; last describes the latest call: what it was given     *)
(* and returned, the words it wrote, and what the heap looked like on      *)
(* entry where a property compares the two.                                *)
Mach == [mem |-> mem, brk |-> brk, hl |-> heap_listp, cb |-> curr_block,
         ok |-> TRUE, wr |-> {}]

NoLast == [op |-> "none", size |-> 0, arg |-> NULL, ret |-> NULL,
           wr |-> {}, invalid |-> FALSE, grew |-> FALSE,
           refused |-> FALSE, thruFail |-> FALSE, seen |-> {},
           fit |-> FALSE, room |-> FALSE, brk0 |-> 0,
           copied |-> 0, kept |-> FALSE,
           hdr0 |-> 0, passed |-> {}, avail |-> FALSE,
           union |-> [start |-> NULL, size |-> 0, prevFree |-> FALSE,
                      nextFree |-> FALSE]]

Init ==
    /\ \E w \in PreHeapWords : mem = (HeapBase - WSIZE) :> w
    /\ brk = HeapBase
    /\ mem_max_addr \in MaxChoices
    /\ junk \in JunkWords
    /\ heap_listp = NULL
    /\ curr_block = NULL
    /\ status = "uninit"
    /\ allocs = <<>>
    /\ last = NoLast
    /\ nops = 0
    /\ realloced = FALSE

Commit(s) ==
    /\ mem' = s.mem
    /\ brk' = s.brk
    /\ heap_listp' = s.hl
    /\ curr_block' = s.cb

(* The block list as mm_checkheap walks it: from heap_listp, by the size   *)
(* in each header, up to the first header of size 0                        *)
RECURSIVE Walk(_, _, _)
Walk(s, bp, acc) ==
    IF bp = NULL \/ bp \in acc \/ ~Valid(HDRP(bp)) \/ GET_SIZE(s, HDRP(bp)) = 0
    THEN acc
    ELSE Only({Walk(s, n, a) : n \in {NEXT_BLKP(s, bp)}, a \in {acc \cup {bp}}})

(* the bytes in the walked blocks whose header says free *)
RECURSIVE SumFree(_, _)
SumFree(s, B) ==
    IF B = {} THEN 0
    ELSE Then(CHOOSE b \in B : TRUE, LAMBDA b :
         (IF GET_ALLOC(s, HDRP(b)) = 0 THEN GET_SIZE(s, HDRP(b)) ELSE 0)
         + SumFree(s, B \ {b}))

FreeBytes(s) == Then(Walk(s, s.hl, {}), LAMBDA B : SumFree(s, B))

StatusOf(out) ==
    IF out = "ret" THEN "ready"
    ELSE IF out = "crash" THEN "crashed"
    ELSE IF out = "hang" THEN "hung" ELSE "exited"

(* a block whose header says free and at least asize bytes *)
Fits(s, b, asize) ==
    /\ Valid(HDRP(b))
    /\ GET_ALLOC(s, HDRP(b)) = 0
    /\ UGE(GET_SIZE(s, HDRP(b)), asize)

(* The block that freeing bp has to leave, read off the boundary tags of   *)
(* s: the footer of the block before bp is the word at bp - DSIZE, the     *)
(* header of the block after it the word at bp + size - WSIZE; start is    *)
(* NULL when those words are no sizes of blocks inside the heap.           *)
Union(s, bp) ==
    LET size == GET_SIZE(s, HDRP(bp))
        psize == GET_SIZE(s, bp - DSIZE)
        pfree == GET_ALLOC(s, bp - DSIZE) = 0
        nhdr == bp + size - WSIZE
        sane == /\ size >= 2 * DSIZE /\ psize >= 0
                /\ bp - psize - WSIZE >= s.hl
                /\ nhdr + WSIZE <= s.brk
                /\ GET_SIZE(s, nhdr) >= 0
                /\ nhdr + GET_SIZE(s, nhdr) <= s.brk
        nfree == GET_ALLOC(s, nhdr) = 0
    IN  IF ~sane
        THEN [start |-> NULL, size |-> 0, prevFree |-> FALSE,
              nextFree |-> FALSE]
        ELSE [start |-> IF pfree THEN bp - psize ELSE bp,
              size |-> size + (IF pfree THEN psize ELSE 0)
                            + (IF nfree THEN GET_SIZE(s, nhdr) ELSE 0),
              prevFree |-> pfree, nextFree |-> nfree]

(* the first n bytes at dst in s1 are the first n bytes at src in s0 *)
KeptBytes(s0, s1, src, dst, n) ==
    \A k \in 0 .. ((n + 3) \div 4) - 1 :
        IF (k + 1) * 4 <= n
        THEN Word(s1, dst + k * 4) = Word(s0, src + k * 4)
        ELSE (Word(s1, dst + k * 4) - Word(s0, src + k * 4))
             % (IF n - k * 4 = 1 THEN 256
                ELSE IF n - k * 4 = 2 THEN 65536 ELSE 16777216) = 0

NewAlloc(s, p, size) ==
    [ptr |-> p, size |-> size, live |-> TRUE,
     bsize |-> GET_SIZE(s, HDRP(p)), at |-> nops + 1, freedAt |-> 0,
     free0 |-> FreeBytes(Mach)]

Initialize ==
    /\ status = "uninit"
    /\ \E m \in {Mach} : \E r \in {mm_init(m)} :
           /\ Commit(r.s)
           /\ status' = IF ~r.s.ok THEN "crashed"
                        ELSE IF r.ret = 0 THEN "ready" ELSE "initfail"
           /\ last' = [NoLast EXCEPT !.op = "init", !.ret = r.ret,
                                     !.wr = r.s.wr, !.refused = r.refused,
                                     !.thruFail = r.thruFail]
    /\ UNCHANGED <<mem_max_addr, junk, allocs, nops, realloced>>

Malloc(size) ==
    /\ status = "ready"
    /\ nops < MaxOps
    /\ \E m \in {Mach} : \E r \in {mm_malloc(m, size)} :
           /\ Commit(r.s)
           /\ status' = StatusOf(r.out)
           /\ allocs' = IF r.out = "ret" /\ r.ret # NULL
                        THEN Append(allocs, NewAlloc(r.s, r.ret, size))
                        ELSE allocs
           /\ last' = [NoLast EXCEPT !.op = "malloc", !.size = size,
                                     !.ret = r.ret, !.wr = r.s.wr,
                                     !.invalid = r.invalid, !.grew = r.grew,
                                     !.refused = r.refused, !.seen = r.seen,
                                     !.fit = r.fit, !.room = r.room,
                                     !.brk0 = brk,
                                     !.hdr0 = IF r.fit THEN GET(m, HDRP(r.ret))
                                              ELSE 0,
                                     !.passed = {b \in r.seen \ {r.ret} :
                                                   Fits(m, b, size + DSIZE)},
                                     !.avail = \E b \in Walk(m, m.hl, {}) :
                                                   Fits(m, b, size + DSIZE)]
    /\ nops' = nops + 1
    /\ UNCHANGED <<mem_max_addr, junk, realloced>>

Free(k) ==
    /\ status = "ready"
    /\ nops < MaxOps
    /\ allocs[k].live
    /\ \E m \in {Mach} : \E r \in {mm_free(m, allocs[k].ptr)} :
           /\ Commit(r)
           /\ status' = IF r.ok THEN "ready" ELSE "crashed"
           /\ last' = [NoLast EXCEPT !.op = "free", !.arg = allocs[k].ptr,
                                     !.wr = r.wr,
                                     !.union = Union(m, allocs[k].ptr)]
    /\ allocs' = [allocs EXCEPT ![k].live = FALSE, ![k].freedAt = nops + 1]
    /\ nops' = nops + 1
    /\ UNCHANGED <<mem_max_addr, junk, realloced>>

Realloc(k, size, fwd) ==
    /\ status = "ready"
    /\ nops < MaxOps
    /\ allocs[k].live
    /\ \E m \in {Mach} : \E r \in {mm_realloc(m, allocs[k].ptr, size, fwd)} :
           /\ Commit(r.s)
           /\ status' = StatusOf(r.out)
           /\ allocs' = IF r.out = "ret"
                        THEN Append([allocs EXCEPT ![k].live = FALSE,
                                                   ![k].freedAt = nops + 1],
                                    NewAlloc(r.s, r.ret, size))
                        ELSE allocs
           /\ last' = [NoLast EXCEPT !.op = "realloc", !.size = size,
                                     !.arg = allocs[k].ptr, !.ret = r.ret,
                                     !.wr = r.s.wr, !.copied = r.copied,
                                     !.kept = r.out = "ret" /\
                                         KeptBytes(m, r.s, allocs[k].ptr, r.ret,
                                                   MIN(allocs[k].size, size))]
    /\ nops' = nops + 1
    /\ realloced' = TRUE
    /\ UNCHANGED <<mem_max_addr, junk>>

Next ==
    \/ Initialize
    \/ \E size \in Sizes : Malloc(size)
    \/ \E k \in DOMAIN allocs : Free(k)
    \/ \E k \in DOMAIN allocs, size \in Sizes, fwd \in BOOLEAN :
           Realloc(k, size, fwd)

Spec == Init /\ [][Next]_vars
----------------------------------------------------------------------------
Blocks == Only({Walk(m, m.hl, {}) : m \in {Mach}})

(* checkblock: the header of a block equals its footer *)
HeaderIsFooter(bp) ==
    \E m \in {Mach} : GET(m, HDRP(bp)) = GET(m, FTRP(m, bp))

BlockSize(bp) == GET_SIZE(Mach, HDRP(bp))
BlockFree(bp) == GET_ALLOC(Mach, HDRP(bp)) = 0
NextBlock(bp) == NEXT_BLKP(Mach, bp)

AlignUp(x) == ((x + (DSIZE - 1)) \div DSIZE) * DSIZE

Live == {k \in DOMAIN allocs : allocs[k].live}
Payload(k) == allocs[k].ptr .. (allocs[k].ptr + allocs[k].size - 1)

----------------------------------------------------------------------------
(* C1: every non-null pointer that mm_malloc (or mm_realloc, which returns *)
(* what mm_malloc returned) has handed out is a multiple of 8.             *)
C1_Aligned == \A k \in DOMAIN allocs : allocs[k].ptr % DSIZE = 0

(* a call returned a pointer other than the heap start *)
C1_Witness ==
    /\ status = "ready"
    /\ last.op = "malloc"
    /\ last.ret # NULL
    /\ last.ret # heap_listp

(* C2: after mm_malloc(size) returned p # NULL, the block of p is marked   *)
(* allocated, the size in its header minus OVERHEAD is at least size, and  *)
(* the bytes p .. p+size-1 lie inside the heap.                            *)
C2_Capacity ==
    (status = "ready" /\ last.op = "malloc" /\ last.ret # NULL) =>
        /\ ~BlockFree(last.ret)
        /\ BlockSize(last.ret) - OVERHEAD >= last.size
        /\ last.ret >= heap_listp
        /\ last.ret + last.size <= brk

(* C3: after any sequence of mm_malloc and mm_free calls the payloads of   *)
(* two distinct live allocations are disjoint, and the latest call wrote   *)
(* no word inside the payload of a live allocation other than the one it   *)
(* returned.                                                               *)
C3_Disjoint ==
    (status = "ready" /\ ~realloced) =>
        /\ \A j, k \in Live : j # k => Payload(j) \cap Payload(k) = {}
        /\ \A k \in Live : allocs[k].at # nops =>
               \A a \in last.wr : a + WSIZE <= allocs[k].ptr
                                  \/ a >= allocs[k].ptr + allocs[k].size

(* C4: between calls, every block mm_checkheap walks over has a footer     *)
(* word equal to its header word.                                          *)
C4_HeaderFooter ==
    status = "ready" => \A bp \in Blocks : HeaderIsFooter(bp)

(* C5: after every completed mm_free and every completed heap growth (the  *)
(* one in mm_init, the one in mm_malloc) no two adjacent blocks are both   *)
(* free.                                                                   *)
C5_NoAdjacentFree ==
    (status = "ready" /\ (last.op \in {"free", "init"} \/ last.grew)) =>
        \A bp \in Blocks :
            ~(BlockFree(bp) /\ NextBlock(bp) \in Blocks
              /\ BlockFree(NextBlock(bp)))

(* C6: after mm_init and every later call the heap starts, after the pad   *)
(* word, with a prologue header and footer of size DSIZE, allocated, and   *)
(* its last word is an epilogue header of size 0, allocated.               *)
C6_Sentinels ==
    status = "ready" =>
        \E m \in {Mach} :
            /\ GET(m, heap_listp + WSIZE) = PACK(DSIZE, 1)
            /\ GET(m, heap_listp + DSIZE) = PACK(DSIZE, 1)
            /\ GET(m, brk - WSIZE) = PACK(0, 1)

(* C7: mm_malloc rejects a size as invalid (NULL, nothing written) exactly *)
(* when the block size align_up(size + OVERHEAD) is below 16 bytes.        *)
C7_RejectsBelowFloor ==
    (status = "ready" /\ last.op = "malloc") =>
        /\ last.invalid <=> AlignUp(last.size + OVERHEAD) < MINREQ
        /\ last.invalid => last.ret = NULL /\ last.wr = {}

(* C8: when mm_malloc's search of the heap yields no block for a valid     *)
(* request and mem_sbrk would refuse the growth, mm_malloc returns NULL    *)
(* and leaves the heap words and the heap top as they were.                *)
C8_NoFitNoGrowth ==
    (last.op = "malloc" /\ ~last.invalid /\ ~last.fit /\ ~last.room) =>
        /\ status = "ready"
        /\ last.ret = NULL
        /\ last.wr = {}
        /\ brk = last.brk0

(* C9: mm_init returns -1 whenever mem_sbrk refused one of its two         *)
(* requests, 0 only when both were granted, and reads or writes no word    *)
(* through the failure value.                                              *)
C9_InitFailure ==
    last.op = "init" =>
        /\ last.refused => status = "initfail" /\ last.ret = 0 - 1
        /\ status = "ready" => ~last.refused
        /\ ~last.thruFail

(* C10: three adjacent allocated blocks A, B, C (each starting where the   *)
(* one before ends, all three live at once) can be freed in any order:     *)
(* every one of the three mm_free calls completes, and after the third the *)
(* region they covered lies in one free block of at least the three sizes. *)
Adjacent(i, j) == allocs[j].ptr = allocs[i].ptr + allocs[i].bsize

Freed(T) == {k \in T : ~allocs[k].live}

C10_Triple(i, j, k) ==
    /\ Adjacent(i, j) /\ Adjacent(j, k)
    /\ \A x \in DOMAIN allocs \ {i, j, k} :
           allocs[x].ptr \notin {allocs[i].ptr, allocs[j].ptr, allocs[k].ptr}
    /\ \A x \in {i, j, k} : allocs[x].at <= nops - Cardinality(Freed({i, j, k}))
    /\ \A x \in Freed({i, j, k}) :
           allocs[x].freedAt > nops - Cardinality(Freed({i, j, k}))

C10_FreeAnyOrder ==
    \A i, j, k \in DOMAIN allocs :
        (C10_Triple(i, j, k) /\ last.op \in {"malloc", "free"}) =>
            /\ status = "ready"
            /\ Freed({i, j, k}) = {i, j, k} =>
                   \E bp \in Blocks :
                       /\ BlockFree(bp)
                       /\ bp <= allocs[i].ptr
                       /\ bp + BlockSize(bp) >= allocs[k].ptr + allocs[k].bsize
                       /\ BlockSize(bp) >= allocs[i].bsize + allocs[j].bsize
                                           + allocs[k].bsize
(* C11: when mm_malloc returned p without growing the heap and the very    *)
(* next call is mm_free(p), the bytes in free blocks after the free equal  *)
(* the bytes in free blocks before the mm_malloc.                          *)
C11_RoundTrip ==
    \A k \in DOMAIN allocs :
        (last.op = "free" /\ allocs[k].freedAt = nops
         /\ allocs[k].at = nops - 1 /\ nops >= 2) =>
            /\ status = "ready"
            /\ FreeBytes(Mach) = allocs[k].free0
(* C12: when mm_realloc(ptr, size) returns q for a live allocation of      *)
(* old_size bytes, q differs from ptr, the first min(old_size, size) bytes *)
(* at q are those that were at ptr, no more than that many bytes were      *)
(* copied, and the block of ptr is free afterwards.                        *)
C12_Realloc ==
    \A k \in DOMAIN allocs :
        (status = "ready" /\ last.op = "realloc" /\ allocs[k].freedAt = nops
         /\ allocs[k].ptr = last.arg) =>
            /\ last.ret # last.arg
            /\ last.kept
            /\ last.copied <= MIN(allocs[k].size, last.size)
            /\ BlockFree(last.arg)
(* C13: after every mm_malloc that returned a non-null pointer, curr_block *)
(* is the pointer just returned.                                           *)
C13_CursorFollows ==
    (status = "ready" /\ last.op = "malloc" /\ last.ret # NULL) =>
        curr_block = last.ret
(* C14: find_fit(asize), as mm_malloc calls it for a valid request,       *)
(* returns a block whose header says free and at least asize bytes, having *)
(* passed over no such block before it, and returns no block only when no  *)
(* block of the heap is free with at least asize bytes.                    *)
C14_FirstFit ==
    (last.op = "malloc" /\ ~last.invalid) =>
        /\ last.fit => /\ last.hdr0 % 2 = 0
                       /\ UGE(last.hdr0 - (last.hdr0 % 8), last.size + DSIZE)
                       /\ last.passed = {}
        /\ ~last.fit => ~last.avail
(* C15: every find_fit call (one per valid mm_malloc request) returns,     *)
(* and every word it reads, the first payload word and the header of each  *)
(* block it visits, lies inside the heap.                                  *)
C15_FindFitReturns ==
    (last.op = "malloc" /\ ~last.invalid) =>
        /\ last.fit \/ last.grew
        /\ \A i \in last.seen :
               /\ HDRP(i) >= heap_listp
               /\ i + WSIZE <= brk
(* C16: when mm_malloc places a request of asize bytes in a block whose    *)
(* header said free, B >= asize bytes: if B - asize >= 16 the block        *)
(* becomes an allocated block of asize bytes followed at once by a free    *)
(* block of B - asize bytes (more if that one merged with a free block     *)
(* after it); otherwise it becomes one allocated block of B bytes.         *)
PlacedSize == last.hdr0 - (last.hdr0 % 8)
PlacedAsize == last.size + DSIZE

C16_Place ==
    (last.op = "malloc" /\ last.fit /\ last.hdr0 % 2 = 0
     /\ PlacedSize >= PlacedAsize) =>
        /\ status = "ready"
        /\ \E m \in {Mach} :
            IF PlacedSize - PlacedAsize >= 16
            THEN /\ GET(m, HDRP(last.ret)) = PACK(PlacedAsize, 1)
                 /\ GET(m, last.ret + PlacedAsize - DSIZE) = PACK(PlacedAsize, 1)
                 /\ GET_ALLOC(m, last.ret + PlacedAsize - WSIZE) = 0
                 /\ GET_SIZE(m, last.ret + PlacedAsize - WSIZE)
                        >= PlacedSize - PlacedAsize
            ELSE /\ GET(m, HDRP(last.ret)) = PACK(PlacedSize, 1)
                 /\ GET(m, last.ret + PlacedSize - DSIZE) = PACK(PlacedSize, 1)
(* C17: after the extend_heap(CHUNKSIZE/WSIZE) of a successful mm_init the *)
(* heap ends in a free block whose header, in the word of the old epilogue *)
(* header, and footer both say CHUNKSIZE bytes, followed by a size-0       *)
(* allocated epilogue header in the last word of the heap.                 *)
C17_GrowFormats ==
    (status = "ready" /\ last.op = "init") =>
        \E m \in {Mach} :
            /\ GET(m, brk - CHUNKSIZE - WSIZE) = PACK(CHUNKSIZE, 0)
            /\ GET(m, brk - DSIZE) = PACK(CHUNKSIZE, 0)
            /\ GET(m, brk - WSIZE) = PACK(0, 1)
(* C18: mm_free(bp), which clears the allocated bits and calls             *)
(* coalesce(bp), leaves a free block that starts at the block before bp    *)
(* when that one was free and at bp otherwise, whose size is the size of   *)
(* bp plus the sizes of its free neighbours, and whose header and footer   *)
(* both hold that size, free.                                              *)
C18_Coalesce ==
    (last.op = "free" /\ last.union.start # NULL) =>
        /\ status = "ready"
        /\ \E m \in {Mach} :
              /\ GET(m, HDRP(last.union.start)) = PACK(last.union.size, 0)
              /\ GET(m, last.union.start + last.union.size - DSIZE)
                     = PACK(last.union.size, 0)
(* C19: between calls every walked block after the one at heap_listp has  *)
(* a header size that is a multiple of 8 and at least 16, and the block    *)
(* mm_malloc(size) returned has at least size + OVERHEAD rounded up to a   *)
(* multiple of 8.                                                          *)
C19_BlockSizes ==
    status = "ready" =>
        /\ \A bp \in Blocks \ {heap_listp} :
               BlockSize(bp) % DSIZE = 0 /\ BlockSize(bp) >= 2 * DSIZE
        /\ (last.op = "malloc" /\ last.ret # NULL) =>
               BlockSize(last.ret) >= AlignUp(last.size + OVERHEAD)
(* C20: between calls the walk from heap_listp by header sizes ends        *)
(* exactly at the last word of the heap, and that word is a size-0         *)
(* allocated epilogue header.                                              *)
WalkEnd ==
    IF Blocks = {} THEN heap_listp
    ELSE Then(CHOOSE b \in Blocks : \A c \in Blocks : c <= b, LAMBDA b :
              PtrAdd(b, BlockSize(b)))

C20_Tiling ==
    status = "ready" =>
        /\ HDRP(WalkEnd) = brk - WSIZE
        /\ GET(Mach, brk - WSIZE) = PACK(0, 1)
====
